---- MODULE Spec2Model ----
(***************************************************************************)
(* discord.ext.tasks.Loop: a background task helper.  One Loop object and  *)
(* the asyncio tasks its start() creates.  A task advances from one await  *)
(* (suspension point) to the next in one step, as an asyncio task does.    *)
(***************************************************************************)
EXTENDS Integers, Sequences, FiniteSets, TLC

\* ---------------------------------------------------------------- bounds
MaxRuns == 2
MaxCount == 2
\* total number of invocations of the work coroutine over the Loop's life
MaxWork == MaxCount + 1
\* cap of the exponent of the backoff generator
BackoffMax == 2
\* entries that add_exception_type appends to the tuple at a time
MaxAdd == 2
\* the limit of asyncio on the seconds of a sleep
MAX_ASYNCIO_SECONDS == 3456000

\* ------------------------------------------------------------ data types
\* Python's None; an Optional value is None or a one-element tuple
None == <<>>
NoExc == "None"

RunIds == 1 .. MaxRuns

\* exception classes that the work coroutine raises in the model
WorkExc == {"ConnectionResetError", "ValueError"}
\* exception class that a hook raises in the model
HookExc == {"LookupError"}

\* the classes a class is a subclass of (itself included)
Mro(e) ==
    CASE e = "ConnectionResetError" ->
             {"ConnectionResetError", "ConnectionError", "OSError", "Exception", "BaseException"}
      [] e = "OSError" -> {"OSError", "Exception", "BaseException"}
      [] e = "CancelledError" -> {"CancelledError", "BaseException"}
      [] e = "int" -> {"int", "object"}
      [] e = "42" -> {}
      [] OTHER -> {e, "Exception", "BaseException"}

\* the tuple that __init__ stores in self._valid_exception
DefaultValidException ==
    << "OSError", "HTTPException", "GatewayNotFound", "ConnectionClosed",
       "ClientError", "TimeoutError", "InvalidHandshake", "WebSocketProtocolError" >>

\* `except self._valid_exception`: e is an instance of a class of the tuple
Matches(e, tuple) == \E i \in 1 .. Len(tuple) : tuple[i] \in Mro(e)

VARIABLES
    count,             \* self.count: None or <<n>>
    reconnect,         \* self.reconnect
    _current_loop,     \* self._current_loop
    _task,             \* self._task: None or <<run id>>
    _valid_exception,  \* self._valid_exception
    _before_loop,      \* self._before_loop: None or <<"coro">>
    _after_loop,       \* self._after_loop: None or <<"coro">>
    coro,              \* self.coro: None while no Loop has been constructed
    _sleep,            \* self._sleep
    _injected,         \* self._injected: None or <<instance>>
    run,               \* the asyncio tasks created by start(), by run id
    ret                \* outcome of the last call of start() or cancel()

vars == << count, reconnect, _current_loop, _task, _valid_exception,
           _before_loop, _after_loop, coro, _sleep, _injected, run, ret >>

config == << count, reconnect, _valid_exception, _before_loop, _after_loop,
             coro, _sleep, _injected >>

\* a float: a number (integral in the model) or nan
Num(v) == [ nan |-> FALSE, v |-> v ]
NaN == [ nan |-> TRUE, v |-> 0 ]
\* float addition, multiplication by a constant, >= and <
FAdd(a, b) == IF a.nan \/ b.nan THEN NaN ELSE Num(a.v + b.v)
FMul(a, k) == IF a.nan THEN NaN ELSE Num(a.v * k)
FGe(a, b) == ~a.nan /\ ~b.nan /\ a.v >= b.v
FLt(a, b) == ~a.nan /\ ~b.nan /\ a.v < b.v

\* a task that loop.create_task has not created yet
NoRun ==
    [ pc |-> "absent",        \* absent, created, before, work, sleep, backoff, after, done
      must_cancel |-> FALSE,  \* Task.cancel() was called and not yet delivered
      exc |-> NoExc,          \* the exception that the finally block is unwinding
      result |-> "pending",   \* pending, ok, cancelled, or the class of the exception
      context |-> NoExc,      \* __context__ of the exception in result
      exp |-> 0,              \* state of this run's ExponentialBackoff
      cancelAt |-> "None",    \* where the task was when cancel() reached it
      nWork |-> 0,            \* invocations of self.coro
      nAfter |-> 0,           \* invocations of the after_loop coroutine
      nOk |-> 0,              \* invocations of self.coro that returned
      nRetry |-> 0,           \* failures of self.coro handled by the reconnect branch
      nBackoff |-> 0,         \* backoff sleeps
      streak |-> 0,           \* reconnect failures since the last success
      end |-> "None",         \* why the while loop was left
      raised |-> NoExc,       \* what the current invocation of self.coro raised
      fatal |-> NoExc,        \* the exception of self.coro that left the loop
      afterExc |-> NoExc,     \* what the after_loop coroutine raised
      args |-> None,          \* the instance that start() prepended to args
      beforeGot |-> {},       \* the instances that before_loop was invoked with
      workGot |-> {},         \* the instances that self.coro was invoked with
      afterGot |-> {} ]       \* the instances that after_loop was invoked with

RECURSIVE SumWork(_, _)
SumWork(f, n) == IF n = 0 THEN 0 ELSE f[n].nWork + SumWork(f, n - 1)
TotalWork == SumWork(run, MaxRuns)

Created == { r \in RunIds : run[r].pc # "absent" }

Init ==
    /\ count \in {None} \cup { <<n>> : n \in 1 .. MaxCount }
    /\ reconnect \in BOOLEAN
    /\ _current_loop = 0
    /\ _task = None
    /\ _valid_exception = DefaultValidException
    /\ _before_loop \in {None, <<"coro">>}
    /\ _after_loop \in {None, <<"coro">>}
    /\ coro = <<"coroutine function">>
    /\ _sleep = Num(0)
    /\ _injected = None
    /\ run = [ r \in RunIds |-> NoRun ]
    /\ ret = [ raised |-> NoExc, value |-> None ]

\* ------------------------------------------------- the coroutine Loop._loop
\* the coroutine ends: return (NoExc) or an exception leaves it
Finish(t, e, ctx) ==
    [ t EXCEPT !.pc = "done",
               !.exc = NoExc,
               !.result = IF e = NoExc THEN "ok"
                          ELSE IF e = "CancelledError" THEN "cancelled" ELSE e,
               !.context = IF e = NoExc THEN NoExc ELSE ctx ]

\* `finally: await self._call_loop_function('after_loop')` while e (or nothing)
\* leaves the try block; an unset hook returns without suspending
CallAfterLoop(t, e) ==
    IF _after_loop = None
    THEN Finish(t, e, NoExc)
    ELSE [ t EXCEPT !.pc = "after", !.nAfter = @ + 1, !.exc = e,
                    !.afterGot = @ \cup {_injected} ]

\* `await self.coro(*args, **kwargs)` is entered
EnterWork(t) ==
    [ t EXCEPT !.pc = "work", !.nWork = @ + 1, !.raised = NoExc,
               !.workGot = @ \cup {t.args} ]

\* the bound of the model on invocations of self.coro
CanWork == TotalWork < MaxWork

\* ExponentialBackoff.delay(): the exponent of the next delay window
BackoffDelay(exp) == IF exp < BackoffMax THEN exp + 1 ELSE BackoffMax

\* WorkReturned with the count compared before the increment
WorkReturned_StaleCount(t, n) ==
    LET t1 == [ t EXCEPT !.nOk = @ + 1, !.streak = 0 ]
    IN  IF <<n - 1>> = count
        THEN CallAfterLoop([ t1 EXCEPT !.end = "count" ], NoExc)
        ELSE [ t1 EXCEPT !.pc = "sleep" ]

\* the else branch of the inner try: self.coro returned; n is the new _current_loop
WorkReturned(t, n) ==
    LET t1 == [ t EXCEPT !.nOk = @ + 1, !.streak = 0 ]
    IN  IF <<n>> = count
        THEN CallAfterLoop([ t1 EXCEPT !.end = "count" ], NoExc)
        ELSE [ t1 EXCEPT !.pc = "sleep" ]

\* WorkRaised without `if not self.reconnect: raise`
WorkRaised_NoReraise(t, e) ==
    IF e = "CancelledError"
    THEN CallAfterLoop([ t EXCEPT !.end = "cancelled" ], NoExc)
    ELSE IF Matches(e, _valid_exception)
    THEN [ t EXCEPT !.pc = "backoff",
                    !.exp = BackoffDelay(@),
                    !.nRetry = @ + 1,
                    !.nBackoff = @ + 1,
                    !.streak = @ + 1 ]
    ELSE CallAfterLoop([ t EXCEPT !.end = "fatal", !.fatal = e ], e)

\* WorkRaised sleeping the fixed interval instead of backoff.delay()
WorkRaised_FixedSleep(t, e) ==
    IF e = "CancelledError"
    THEN CallAfterLoop([ t EXCEPT !.end = "cancelled" ], NoExc)
    ELSE IF Matches(e, _valid_exception) /\ reconnect
    THEN [ t EXCEPT !.pc = "sleep", !.nRetry = @ + 1, !.streak = @ + 1 ]
    ELSE CallAfterLoop([ t EXCEPT !.end = "fatal", !.fatal = e ], e)

\* WorkRaised retrying at once, without `await asyncio.sleep(backoff.delay())`
WorkRaised_NoSleep(t, e) ==
    IF e = "CancelledError"
    THEN CallAfterLoop([ t EXCEPT !.end = "cancelled" ], NoExc)
    ELSE IF Matches(e, _valid_exception) /\ reconnect
    THEN [ t EXCEPT !.pc = "work",
                    !.raised = NoExc,
                    !.nWork = @ + 1,
                    !.nRetry = @ + 1,
                    !.streak = @ + 1 ]
    ELSE CallAfterLoop([ t EXCEPT !.end = "fatal", !.fatal = e ], e)

\* WorkRaised with the tuple of __init__ in place of the current one
WorkRaised_Cached(t, e) ==
    IF e = "CancelledError"
    THEN CallAfterLoop([ t EXCEPT !.end = "cancelled" ], NoExc)
    ELSE IF Matches(e, DefaultValidException) /\ reconnect
    THEN [ t EXCEPT !.pc = "backoff",
                    !.exp = BackoffDelay(@),
                    !.nRetry = @ + 1,
                    !.nBackoff = @ + 1,
                    !.streak = @ + 1 ]
    ELSE CallAfterLoop([ t EXCEPT !.end = "fatal", !.fatal = e ], e)

\* WorkRaised with `except self._valid_exception` before `except CancelledError`
WorkRaised_ValidFirst(t, e) ==
    IF Matches(e, _valid_exception)
    THEN IF reconnect
         THEN [ t EXCEPT !.pc = "backoff",
                         !.exp = BackoffDelay(@),
                         !.nRetry = @ + 1,
                         !.nBackoff = @ + 1,
                         !.streak = @ + 1 ]
         ELSE CallAfterLoop([ t EXCEPT !.end = "fatal", !.fatal = e ], e)
    ELSE IF e = "CancelledError"
    THEN CallAfterLoop([ t EXCEPT !.end = "cancelled" ], NoExc)
    ELSE CallAfterLoop([ t EXCEPT !.end = "fatal", !.fatal = e ], e)

\* the except clauses of the inner try: self.coro raised e
WorkRaised(t, e) ==
    IF e = "CancelledError"
    THEN CallAfterLoop([ t EXCEPT !.end = "cancelled" ], NoExc)
    ELSE IF Matches(e, _valid_exception) /\ reconnect
    THEN [ t EXCEPT !.pc = "backoff",
                    !.exp = BackoffDelay(@),
                    !.nRetry = @ + 1,
                    !.nBackoff = @ + 1,
                    !.streak = @ + 1 ]
    ELSE CallAfterLoop([ t EXCEPT !.end = "fatal", !.fatal = e ], e)

\* SleepRaised as if the sleeps were outside the try statement
SleepRaised_NoFinally(t, e) == Finish([ t EXCEPT !.end = "cancelled" ], e, NoExc)

\* an exception raised by one of the two sleeps leaves the outer try
SleepRaised(t, e) == CallAfterLoop([ t EXCEPT !.end = "cancelled" ], e)

Runnable(r) == run[r].pc \notin {"absent", "done"} /\ ~run[r].must_cancel

\* first step of the task: ExponentialBackoff(), then the before_loop hook
FirstStep(r) ==
    /\ Runnable(r) /\ run[r].pc = "created"
    /\ IF _before_loop = None
       THEN CanWork /\ run' = [ run EXCEPT ![r] = EnterWork(@) ]
       ELSE run' = [ run EXCEPT ![r] = [ @ EXCEPT !.pc = "before",
                                                  !.beforeGot = @ \cup {_injected} ] ]
    /\ UNCHANGED << config, _current_loop, _task, ret >>

BeforeReturn(r) ==
    /\ Runnable(r) /\ run[r].pc = "before" /\ CanWork
    /\ run' = [ run EXCEPT ![r] = EnterWork(@) ]
    /\ UNCHANGED << config, _current_loop, _task, ret >>

\* the before_loop hook is awaited outside the try statement
BeforeRaise(r, e) ==
    /\ Runnable(r) /\ run[r].pc = "before"
    /\ run' = [ run EXCEPT ![r] = Finish([ @ EXCEPT !.end = "before" ], e, NoExc) ]
    /\ UNCHANGED << config, _current_loop, _task, ret >>

WorkReturn(r) ==
    /\ Runnable(r) /\ run[r].pc = "work"
    /\ _current_loop' = _current_loop + 1
    /\ run' = [ run EXCEPT ![r] = WorkReturned(@, _current_loop + 1) ]
    /\ UNCHANGED << config, _task, ret >>

WorkRaise(r, e) ==
    /\ Runnable(r) /\ run[r].pc = "work"
    /\ run' = [ run EXCEPT ![r] = WorkRaised([ @ EXCEPT !.raised = e ], e) ]
    /\ UNCHANGED << config, _current_loop, _task, ret >>

\* `await asyncio.sleep(self._sleep)` returns
SleepReturn(r) ==
    /\ Runnable(r) /\ run[r].pc = "sleep" /\ CanWork
    /\ run' = [ run EXCEPT ![r] = EnterWork(@) ]
    /\ UNCHANGED << config, _current_loop, _task, ret >>

\* `await asyncio.sleep(backoff.delay())` returns
BackoffReturn(r) ==
    /\ Runnable(r) /\ run[r].pc = "backoff" /\ CanWork
    /\ run' = [ run EXCEPT ![r] = EnterWork(@) ]
    /\ UNCHANGED << config, _current_loop, _task, ret >>

\* AfterReturned as if the finally block returned, dropping the exception
AfterReturned_Swallow(t) == Finish(t, NoExc, NoExc)

\* the after_loop hook returns: the finally block re-raises what it was unwinding
AfterReturned(t) == Finish(t, t.exc, NoExc)

AfterReturn(r) ==
    /\ Runnable(r) /\ run[r].pc = "after"
    /\ run' = [ run EXCEPT ![r] = AfterReturned(@) ]
    /\ UNCHANGED << config, _current_loop, _task, ret >>

\* the after_loop hook raises e inside the finally block
AfterRaised(t, e) == Finish([ t EXCEPT !.afterExc = e ], e, t.exc)

AfterRaise(r, e) ==
    /\ Runnable(r) /\ run[r].pc = "after"
    /\ run' = [ run EXCEPT ![r] = AfterRaised(@, e) ]
    /\ UNCHANGED << config, _current_loop, _task, ret >>

\* the next step of a task whose cancel() was called throws CancelledError
\* into the coroutine at the await it is suspended in
Cancelled(t) ==
    LET u == [ t EXCEPT !.must_cancel = FALSE ]
    IN  CASE u.pc \in {"created", "before"} -> Finish(u, "CancelledError", NoExc)
          [] u.pc = "work" -> WorkRaised([ u EXCEPT !.raised = "CancelledError" ], "CancelledError")
          [] u.pc \in {"sleep", "backoff"} -> SleepRaised(u, "CancelledError")
          [] u.pc = "after" -> AfterRaised(u, "CancelledError")

DeliverCancel(r) ==
    /\ run[r].must_cancel
    /\ run[r].pc \in {"created", "before", "work", "sleep", "backoff", "after"}
    /\ run' = [ run EXCEPT ![r] = Cancelled(@) ]
    /\ UNCHANGED << config, _current_loop, _task, ret >>

\* ------------------------------------------------------ the Loop's methods
\* Start without `if self._task is not None: raise RuntimeError`
Start_NoGuard ==
    LET r == Cardinality(Created) + 1
    IN  /\ r \in RunIds
        /\ run' = [ run EXCEPT ![r] = [ NoRun EXCEPT !.pc = "created", !.args = _injected ] ]
        /\ _task' = <<r>>
        /\ ret' = [ raised |-> NoExc, value |-> <<r>> ]
        /\ UNCHANGED << config, _current_loop >>

Start ==
    IF _task # None
    THEN /\ ret' = [ raised |-> "RuntimeError", value |-> None ]
         /\ UNCHANGED << config, _current_loop, _task, run >>
    ELSE LET r == Cardinality(Created) + 1
         IN  /\ r \in RunIds
             /\ run' = [ run EXCEPT ![r] = [ NoRun EXCEPT !.pc = "created", !.args = _injected ] ]
             /\ _task' = <<r>>
             /\ ret' = [ raised |-> NoExc, value |-> <<r>> ]
             /\ UNCHANGED << config, _current_loop >>

\* Loop.get_task(): what the observer returns
get_task == _task

\* Task.cancel(): a task that is done is left alone
TaskCancel(t) ==
    IF t.pc = "done" THEN [ t EXCEPT !.cancelAt = "done" ]
    ELSE [ t EXCEPT !.must_cancel = TRUE, !.cancelAt = t.pc ]

\* Cancel without `self._task = None`
Cancel_KeepsTask ==
    /\ IF _task # None
       THEN run' = [ run EXCEPT ![_task[1]] = TaskCancel(@) ]
       ELSE UNCHANGED run
    /\ ret' = [ raised |-> NoExc, value |-> None ]
    /\ UNCHANGED << config, _current_loop, _task >>

\* Cancel without `self._task.cancel()`
Cancel_NoTaskCancel ==
    /\ _task' = None
    /\ ret' = [ raised |-> NoExc, value |-> None ]
    /\ UNCHANGED << config, _current_loop, run >>

Cancel ==
    /\ IF _task # None
       THEN /\ run' = [ run EXCEPT ![_task[1]] = TaskCancel(@) ]
            /\ _task' = None
       ELSE UNCHANGED << run, _task >>
    /\ ret' = [ raised |-> NoExc, value |-> None ]
    /\ UNCHANGED << config, _current_loop >>

\* ------------------------------------------- the set of retried exceptions
\* arguments of add_exception_type in the model: two exception classes, a
\* class that is no exception, and a value that is no class
AddArgs == {"ConnectionResetError", "CancelledError", "int", "42"}
\* arguments of remove_exception_type in the model
RemoveArgs == {"OSError", "ConnectionResetError"}

\* inspect.isclass(exc)
IsClass(exc) == Mro(exc) # {}
\* issubclass(exc, BaseException)
IsSubclass(exc, base) == base \in Mro(exc)

\* the number of entries of the tuple that are the class exc
Count(exc, tuple) == Cardinality({ i \in 1 .. Len(tuple) : tuple[i] = exc })
\* the number of entries of the tuple that __init__ did not put there
Added(tuple) ==
    Cardinality({ i \in 1 .. Len(tuple) :
                    \A j \in 1 .. Len(DefaultValidException) :
                        tuple[i] # DefaultValidException[j] })

\* True and False, which are the integers 1 and 0
Bool(b) == IF b THEN <<1>> ELSE <<0>>

AddExceptionType(exc) ==
    /\ Added(_valid_exception) < MaxAdd
    /\ IF ~IsClass(exc) \/ ~IsSubclass(exc, "BaseException")
       THEN /\ ret' = [ raised |-> "TypeError", value |-> None ]
            /\ UNCHANGED _valid_exception
       ELSE /\ _valid_exception' = Append(_valid_exception, exc)
            /\ ret' = [ raised |-> NoExc, value |-> None ]
    /\ UNCHANGED << count, reconnect, _before_loop, _after_loop, coro, _sleep, _injected,
                    _current_loop, _task, run >>

ClearExceptionTypes ==
    /\ _valid_exception' = << >>
    /\ ret' = [ raised |-> NoExc, value |-> None ]
    /\ UNCHANGED << count, reconnect, _before_loop, _after_loop, coro, _sleep, _injected,
                    _current_loop, _task, run >>

\* Removed dropping the first entry that is exc, as list.remove would
Removed_FirstOnly(tuple, exc) ==
    LET first == CHOOSE i \in 1 .. Len(tuple) :
                     tuple[i] = exc /\ \A j \in 1 .. i - 1 : tuple[j] # exc
    IN  IF Count(exc, tuple) = 0 THEN tuple
        ELSE SubSeq(tuple, 1, first - 1) \o SubSeq(tuple, first + 1, Len(tuple))

\* tuple(x for x in self._valid_exception if x is not exc)
Removed(tuple, exc) ==
    LET keep(x) == x # exc IN SelectSeq(tuple, keep)

RemoveExceptionType(exc) ==
    LET old_length == Len(_valid_exception)
        new == Removed(_valid_exception, exc)
    IN  /\ _valid_exception' = new
        /\ ret' = [ raised |-> NoExc, value |-> Bool(Len(new) # old_length), removed |-> exc ]
        /\ UNCHANGED << count, reconnect, _before_loop, _after_loop, coro, _sleep, _injected,
                    _current_loop, _task, run >>

\* the first start() of the Loop
FirstStart == Created = {} /\ Start

\* the Loop during its first task, while the set of retried exceptions is changed
NextExc ==
    \/ FirstStart
    \/ Cancel
    \/ \E exc \in AddArgs : AddExceptionType(exc)
    \/ \E exc \in RemoveArgs : RemoveExceptionType(exc)
    \/ ClearExceptionTypes
    \/ \E r \in RunIds :
          \/ FirstStep(r)
          \/ BeforeReturn(r)
          \/ \E e \in HookExc : BeforeRaise(r, e)
          \/ WorkReturn(r)
          \/ \E e \in WorkExc : WorkRaise(r, e)
          \/ SleepReturn(r)
          \/ BackoffReturn(r)
          \/ AfterReturn(r)
          \/ \E e \in HookExc : AfterRaise(r, e)
          \/ DeliverCancel(r)

ExcSpec == Init /\ [][NextExc]_vars

\* ------------------------------------------------------------ construction
\* arguments of Loop.__init__ in the model
SecondsArgs == { Num(-1), Num(0), Num(MAX_ASYNCIO_SECONDS - 1), Num(MAX_ASYNCIO_SECONDS), NaN }
MinutesArgs == { Num(0), Num(1), Num(57600) }
HoursArgs == { Num(-1), Num(0), Num(960) }
CountArgs == {None} \cup { <<n>> : n \in -1 .. MaxCount }
CoroArgs == { "coroutine function", "function" }

\* self.seconds + (self.minutes * 60.0) + (self.hours * 3600.0)
Sleep(seconds, minutes, hours) == FAdd(FAdd(seconds, FMul(minutes, 60)), FMul(hours, 3600))

\* the exception that Loop.__init__ raises for these arguments, if any
InitError(c, seconds, hours, minutes, cnt) ==
    LET sleep == Sleep(seconds, minutes, hours)
    IN  IF cnt # None /\ cnt[1] <= 0 THEN "ValueError"
        ELSE IF FGe(sleep, Num(MAX_ASYNCIO_SECONDS)) THEN "ValueError"
        ELSE IF FLt(sleep, Num(0)) THEN "ValueError"
        ELSE IF c # "coroutine function" THEN "TypeError"
        ELSE NoExc

\* Loop(coro, seconds, hours, minutes, count, reconnect, loop) while no Loop exists
Construct(c, seconds, hours, minutes, cnt, rc) ==
    LET error == InitError(c, seconds, hours, minutes, cnt)
        call == [ coro |-> c, seconds |-> seconds, hours |-> hours,
                  minutes |-> minutes, count |-> cnt ]
    IN  /\ coro = None
        /\ ret' = [ raised |-> error, value |-> None, call |-> call ]
        /\ IF error # NoExc
           THEN UNCHANGED << config, _current_loop, _task, run >>
           ELSE /\ coro' = <<c>>
                /\ _sleep' = Sleep(seconds, minutes, hours)
                /\ count' = cnt
                /\ reconnect' = rc
                /\ _current_loop' = 0
                /\ _task' = None
                /\ _injected' = None
                /\ _valid_exception' = DefaultValidException
                /\ _before_loop' = None
                /\ _after_loop' = None
                /\ UNCHANGED run

\* no Loop has been constructed
InitCtor ==
    /\ coro = None
    /\ count = None
    /\ reconnect = TRUE
    /\ _sleep = Num(0)
    /\ _current_loop = 0
    /\ _task = None
    /\ _injected = None
    /\ _valid_exception = DefaultValidException
    /\ _before_loop = None
    /\ _after_loop = None
    /\ run = [ r \in RunIds |-> NoRun ]
    /\ ret = [ raised |-> NoExc, value |-> None ]

\* start() needs a Loop to be called on
CtorStart == coro # None /\ Start

\* construction of a Loop, then its tasks while cancel() is not called
NextCtor ==
    \/ \E c \in CoroArgs, seconds \in SecondsArgs, hours \in HoursArgs,
          minutes \in MinutesArgs, cnt \in CountArgs, rc \in BOOLEAN :
            Construct(c, seconds, hours, minutes, cnt, rc)
    \/ CtorStart
    \/ \E r \in RunIds :
          \/ FirstStep(r)
          \/ WorkReturn(r)
          \/ \E e \in WorkExc : WorkRaise(r, e)
          \/ SleepReturn(r)
          \/ BackoffReturn(r)

CtorSpec == InitCtor /\ [][NextCtor]_vars

\* ------------------------------------------------- binding to an instance
\* the instances of the class that the Loop is an attribute of
Instances == {"a", "b"}

\* Loop.__get__(obj, objtype) with an instance obj: an attribute access
Get(obj) ==
    /\ _injected' = <<obj>>
    /\ ret' = [ raised |-> NoExc, value |-> None ]
    /\ UNCHANGED << count, reconnect, _valid_exception, _before_loop, _after_loop,
                    coro, _sleep, _current_loop, _task, run >>

\* the Loop during its first task, while instances access it
NextBind ==
    \/ FirstStart
    \/ \E obj \in Instances : Get(obj)
    \/ \E r \in RunIds :
          \/ FirstStep(r)
          \/ BeforeReturn(r)
          \/ \E e \in HookExc : BeforeRaise(r, e)
          \/ WorkReturn(r)
          \/ \E e \in WorkExc : WorkRaise(r, e)
          \/ SleepReturn(r)
          \/ BackoffReturn(r)
          \/ AfterReturn(r)
          \/ \E e \in HookExc : AfterRaise(r, e)

BindSpec == Init /\ [][NextBind]_vars

Next ==
    \/ Start
    \/ Cancel
    \/ \E r \in RunIds :
          \/ FirstStep(r)
          \/ BeforeReturn(r)
          \/ \E e \in HookExc : BeforeRaise(r, e)
          \/ WorkReturn(r)
          \/ \E e \in WorkExc : WorkRaise(r, e)
          \/ SleepReturn(r)
          \/ BackoffReturn(r)
          \/ AfterReturn(r)
          \/ \E e \in HookExc : AfterRaise(r, e)
          \/ DeliverCancel(r)

Spec == Init /\ [][Next]_vars

\* a step of the task r: the event loop runs every task that is ready, and the
\* hooks, the work and the sleeps that a task awaits complete
TaskStep(r) ==
    \/ FirstStep(r)
    \/ BeforeReturn(r)
    \/ \E e \in HookExc : BeforeRaise(r, e)
    \/ WorkReturn(r)
    \/ \E e \in WorkExc : WorkRaise(r, e)
    \/ SleepReturn(r)
    \/ BackoffReturn(r)
    \/ AfterReturn(r)
    \/ \E e \in HookExc : AfterRaise(r, e)
    \/ DeliverCancel(r)

FairSpec == Spec /\ \A r \in RunIds : WF_vars(TaskStep(r))

\* a step of the task r other than the delivery of a cancellation
LoopStep(r) ==
    \/ FirstStep(r)
    \/ BeforeReturn(r)
    \/ \E e \in HookExc : BeforeRaise(r, e)
    \/ WorkReturn(r)
    \/ \E e \in WorkExc : WorkRaise(r, e)
    \/ SleepReturn(r)
    \/ BackoffReturn(r)
    \/ AfterReturn(r)
    \/ \E e \in HookExc : AfterRaise(r, e)

\* the Loop when cancel() is never called: no CancelledError is ever thrown
NextNoCancel == Start \/ \E r \in RunIds : LoopStep(r)

NoCancelSpec ==
    Init /\ [][NextNoCancel]_vars /\ \A r \in RunIds : WF_vars(LoopStep(r))

TypeOK ==
    /\ _current_loop \in Nat
    /\ _task \in {None} \cup { <<r>> : r \in RunIds }
    /\ \A r \in RunIds : run[r].nWork <= MaxWork

\* ------------------------------------------------------------------ claims
Done(r) == run[r].pc = "done"
HookSet(h) == h # None
\* the number of times a hook that is set must have been invoked
Once(h) == IF HookSet(h) THEN 1 ELSE 0
\* the exception e of self.coro is one that the loop does not retry
Fatal(e) == e # "CancelledError" /\ ~(Matches(e, _valid_exception) /\ reconnect)
\* in this step the invocation of self.coro by task r raises
WorkRaises(r) == run[r].pc = "work" /\ run[r].raised = NoExc /\ run'[r].raised # NoExc

\* C1: a run whose before-hook raised has never invoked the work, has invoked
\* the after-hook exactly once, and has the hook's failure as its outcome.
C1_BeforeHookFailure ==
    \A r \in RunIds :
        (Done(r) /\ run[r].end = "before" /\ HookSet(_after_loop))
            => /\ run[r].nWork = 0
               /\ run[r].nAfter = 1
               /\ run[r].result \in HookExc

\* C2: a run that cancel() reached before its first step, during the
\* before-hook, the work, the interval sleep or the backoff sleep has invoked
\* the after-hook exactly once when it is over, and no run invokes it twice.
C2_CancelAfterHookOnce ==
    \A r \in RunIds :
        /\ run[r].nAfter <= 1
        /\ (Done(r) /\ HookSet(_after_loop)
              /\ run[r].cancelAt \in {"created", "before", "work", "sleep", "backoff"})
             => run[r].nAfter = 1

\* the step in which self.coro raises a failure that is not retried: no backoff
\* sleep, the after-hook is entered (once), the failure is what is unwinding
FatalStep(r) ==
    (WorkRaises(r) /\ Fatal(run'[r].raised))
        => /\ run'[r].pc = (IF HookSet(_after_loop) THEN "after" ELSE "done")
           /\ run'[r].end = "fatal"
           /\ run'[r].fatal = run'[r].raised
           /\ run'[r].nBackoff = run[r].nBackoff
           /\ run'[r].nAfter = run[r].nAfter + Once(_after_loop)
           /\ _current_loop' = _current_loop
\* after that step the run invokes neither the work nor a hook nor a sleep
FatalFrozen(r) ==
    run[r].end = "fatal"
        => /\ run'[r].nWork = run[r].nWork
           /\ run'[r].nBackoff = run[r].nBackoff
           /\ run'[r].nAfter = run[r].nAfter
           /\ run'[r].pc \in {"after", "done"}

\* C3 as stated: after a failure of the work that is not retried, no backoff
\* sleep and no further work invocation happen, the after-hook runs exactly
\* once and the run ends with that failure as the outcome of the handle.
C3_FatalOutcome ==
    /\ [][\A r \in RunIds : FatalStep(r) /\ FatalFrozen(r)]_vars
    /\ [](\A r \in RunIds :
            (Done(r) /\ run[r].end = "fatal")
                => run[r].nAfter = Once(_after_loop) /\ run[r].result = run[r].fatal)

\* C3 amended: as C3, but the failure is the outcome of the handle when the
\* after-hook returned (or none is set); when the after-hook raised or was
\* cancelled, the outcome is that exception and the failure is its context.
C3_FatalOutcomeAmended ==
    /\ [][\A r \in RunIds : FatalStep(r) /\ FatalFrozen(r)]_vars
    /\ [](\A r \in RunIds :
            (Done(r) /\ run[r].end = "fatal")
                => /\ run[r].nAfter = Once(_after_loop)
                   /\ run[r].afterExc = NoExc => run[r].result = run[r].fatal
                   /\ run[r].afterExc # NoExc =>
                        /\ run[r].result \in {run[r].afterExc, "cancelled"}
                        /\ run[r].result # run[r].fatal
                        /\ run[r].context = run[r].fatal)

C3_Witness ==
    \E r \in RunIds :
        /\ Done(r) /\ run[r].end = "fatal" /\ ~reconnect
        /\ run[r].fatal = "ConnectionResetError" /\ run[r].result = "ConnectionResetError"
        /\ run[r].nAfter = 1

\* C4 as stated: when a fatal failure of the work ends the loop, the after-hook
\* has run before the task ends and the work's failure is the outcome of the
\* handle, also when the after-hook itself failed.
C4_OriginalWins ==
    \A r \in RunIds :
        (Done(r) /\ run[r].end = "fatal" /\ HookSet(_after_loop))
            => run[r].nAfter = 1 /\ run[r].result = run[r].fatal

\* C4 amended: the after-hook has run before the task ends; the work's failure
\* is the outcome when the after-hook returned; when the after-hook raised (or
\* was cancelled) its exception is the outcome, with the work's failure as its
\* context and nowhere else.
C4_AfterHookReplaces ==
    \A r \in RunIds :
        (Done(r) /\ run[r].end = "fatal" /\ HookSet(_after_loop))
            => /\ run[r].nAfter = 1
               /\ IF run[r].afterExc = NoExc
                  THEN run[r].result = run[r].fatal /\ run[r].context = NoExc
                  ELSE /\ run[r].result =
                            (IF run[r].afterExc = "CancelledError"
                             THEN "cancelled" ELSE run[r].afterExc)
                       /\ run[r].context = run[r].fatal

C4_Witness ==
    \E r \in RunIds :
        /\ Done(r) /\ run[r].end = "fatal" /\ run[r].fatal = "ValueError"
        /\ run[r].afterExc = "LookupError" /\ run[r].result = "LookupError"
        /\ run[r].context = "ValueError"

\* C5: _current_loop never decreases, and never exceeds count when count is set.
C5_IterationBounded ==
    [][ /\ _current_loop' >= _current_loop
        /\ count # None => _current_loop' <= count[1] ]_vars

\* cancel() has reached no task of the Loop, running or done
NoCancel == \A r \in RunIds : run[r].cancelAt = "None"
\* no hook and no invocation of the work has failed in the task r
NoFailure(r) ==
    /\ run[r].nRetry = 0 /\ run[r].raised = NoExc
    /\ run[r].end \notin {"before", "fatal"} /\ run[r].afterExc = NoExc

RetryStep(r) ==
    (WorkRaises(r) /\ run'[r].raised # "CancelledError" /\ ~Fatal(run'[r].raised))
        => /\ _current_loop' = _current_loop
           /\ run'[r].nOk = run[r].nOk
           /\ run'[r].pc = "backoff"
           /\ run'[r].nBackoff = run[r].nBackoff + 1
           /\ run'[r].nRetry = run[r].nRetry + 1
\* the step in which the backoff sleep returns
RetryAgain(r) ==
    (run[r].pc = "backoff" /\ ~run[r].must_cancel /\ run'[r].pc # "backoff")
        => /\ run'[r].pc = "work"
           /\ run'[r].nWork = run[r].nWork + 1
           /\ _current_loop' = _current_loop

\* C7: a retried failure leaves _current_loop unchanged and starts a backoff
\* sleep, after which the work is invoked again; two retried failures and one
\* success in the only run that had a success give _current_loop = 1 and two
\* backoff sleeps.
C7_RetryKeepsIteration ==
    /\ [][\A r \in RunIds : RetryStep(r) /\ RetryAgain(r)]_vars
    /\ [](\A r \in RunIds :
            (run[r].nRetry = 2 /\ run[r].nOk = 1
               /\ \A q \in RunIds \ {r} : run[q].nOk = 0)
                => _current_loop = 1 /\ run[r].nBackoff = 2)

C7_Witness ==
    /\ count = None /\ reconnect
    /\ run[1].nRetry = 2 /\ run[1].nOk = 1 /\ run[1].streak = 0
    /\ run[1].pc = "sleep" /\ _current_loop = 1 /\ run[1].nBackoff = 2

\* C8: the first retried failure after a success sleeps the initial backoff
\* delay, however many retried failures came before that success.
C8_BackoffReset ==
    \A r \in RunIds :
        (run[r].pc = "backoff" /\ run[r].streak = 1) => run[r].exp = BackoffDelay(0)

\* C9: start() with a task stored raises RuntimeError and changes neither the
\* stored task, nor _current_loop, nor any task, and creates no task.
C9_StartWhileRunning ==
    [][ (Start /\ _task # None)
           => /\ ret'.raised = "RuntimeError"
              /\ UNCHANGED << _task, _current_loop, run, config >> ]_vars

C9_Witness ==
    /\ ret.raised = "RuntimeError" /\ _task = <<1>>
    /\ run[1].pc = "work" /\ Created = {1}

\* C10: start() on a Loop whose task has ended on its own, with no cancel()
\* since, raises nothing and stores a new task.
C10_RestartAfterEnd ==
    [][ (Start /\ _task # None /\ run[_task[1]].pc = "done")
           => ret'.raised = NoExc /\ _task' # _task ]_vars

\* no task of the Loop is between its creation and its end
Idle == \A r \in RunIds : run[r].pc \in {"absent", "done"}

\* C11: get_task() returns the stored task while it runs, and None whenever no
\* task of the Loop is running, also after a task has ended on its own.
C11_GetTaskNoneWhenIdle ==
    /\ \A r \in RunIds : (run[r].pc \notin {"absent", "done"} /\ run[r].cancelAt = "None")
                            => get_task = <<r>>
    /\ Idle => get_task = None

\* C12: cancel() with a task stored requests its cancellation and stores None
\* in the same step, the task being where it was; cancel() with no task stored
\* changes nothing, so that a second cancel() changes nothing.
C12_CancelClearsAtOnce ==
    [][ Cancel =>
          /\ _task' = None
          /\ UNCHANGED << _current_loop, config >>
          /\ _task = None => run' = run
          /\ _task # None =>
               LET r == _task[1]
               IN  /\ \A q \in RunIds \ {r} : run'[q] = run[q]
                   /\ run'[r].pc = run[r].pc
                   /\ run'[r].nAfter = run[r].nAfter
                   /\ run'[r].result = run[r].result
                   /\ run'[r].must_cancel = (run[r].pc # "done") ]_vars

C12_Witness ==
    /\ _task = None /\ run[1].must_cancel /\ run[1].pc = "sleep"
    /\ run[1].result = "pending" /\ run[1].nAfter = 0

\* C13: a run that cancel() reached in the interval sleep invokes the work no
\* more and increments _current_loop no more (nor does anything else while no
\* later run exists), and has invoked the after-hook exactly once when it ends.
C13_CancelInSleep ==
    /\ [][\A r \in RunIds :
            run[r].cancelAt = "sleep"
                => /\ run'[r].nWork = run[r].nWork
                   /\ run'[r].nOk = run[r].nOk
                   /\ run'[r].nBackoff = run[r].nBackoff
                   /\ run'[r].pc \in {"sleep", "after", "done"}
                   /\ (\A q \in RunIds : q > r => run'[q].pc = "absent")
                        => _current_loop' = _current_loop]_vars
    /\ [](\A r \in RunIds :
            (Done(r) /\ run[r].cancelAt = "sleep")
                => /\ run[r].nAfter = Once(_after_loop)
                   /\ run[r].nOk >= 1)

C13_Witness ==
    /\ Done(1) /\ run[1].cancelAt = "sleep" /\ run[1].nAfter = 1
    /\ run[1].nWork = 1 /\ _current_loop = 1 /\ run[1].result = "cancelled"

\* a task between its creation and its end
InProgress(r) == run[r].pc \notin {"absent", "done"}
\* a task that has taken its first step, has not ended, and is not waiting for
\* a CancelledError to be thrown into it
Executing(r) ==
    run[r].pc \in {"before", "work", "sleep", "backoff", "after"} /\ ~run[r].must_cancel
\* a task that is in a hook or in the work
Invoking(r) == run[r].pc \in {"before", "work", "after"} /\ ~run[r].must_cancel

\* C14 as stated: while a task of the Loop is between its first step and the
\* end of its after-hook, no other task of the Loop is in a hook or in the work.
C14_OneRunAtATime ==
    \A r \in RunIds : \A q \in RunIds \ {r} : Executing(r) => ~Invoking(q)

\* C14 amended: at most one task that cancel() has not reached is in progress,
\* and it is the stored one; a task that cancel() has reached may still be in
\* progress while the next one is in a hook or in the work.
C14_OneUncancelledRun ==
    \A r \in RunIds :
        (InProgress(r) /\ run[r].cancelAt = "None")
            => /\ _task = <<r>>
               /\ \A q \in RunIds \ {r} : InProgress(q) => run[q].cancelAt # "None"

C14_Witness ==
    /\ run[1].pc = "after" /\ run[1].cancelAt = "work" /\ ~run[1].must_cancel
    /\ run[2].pc = "work" /\ run[2].cancelAt = "None" /\ _task = <<2>>

\* C19: in a task the before-hook is over before the first invocation of the
\* work; an invocation of the work starts only when the one before it has
\* returned or raised, its bookkeeping is done and the sleep after it has
\* returned; the after-hook starts only when the last invocation is over.
C19_Sequential ==
    /\ [][\A r \in RunIds :
            /\ run'[r].nWork # run[r].nWork
                 => /\ run'[r].nWork = run[r].nWork + 1
                    /\ run'[r].pc = "work" /\ ~run[r].must_cancel
                    /\ run[r].nOk + run[r].nRetry = run[r].nWork
                    /\ IF run[r].nWork = 0
                       THEN \/ run[r].pc = "before"
                            \/ run[r].pc = "created" /\ ~HookSet(_before_loop)
                       ELSE \/ run[r].pc = "sleep" /\ run[r].streak = 0
                            \/ run[r].pc = "backoff" /\ run[r].streak > 0
            /\ run'[r].nAfter # run[r].nAfter
                 => /\ run[r].pc \in {"work", "sleep", "backoff"}
                    /\ run'[r].pc = "after"
            /\ run[r].pc \in {"after", "done"} => run'[r].nWork = run[r].nWork]_vars
    /\ [](\A r \in RunIds :
            /\ run[r].pc \in {"created", "before"} => run[r].nWork = 0 /\ run[r].nAfter = 0
            /\ run[r].pc = "work" => run[r].nOk + run[r].nRetry = run[r].nWork - 1
            /\ run[r].pc \in {"sleep", "backoff"} => run[r].nOk + run[r].nRetry = run[r].nWork)

C19_Witness ==
    /\ HookSet(_before_loop) /\ HookSet(_after_loop)
    /\ Done(1) /\ run[1].nWork = 3 /\ run[1].nOk = 1 /\ run[1].nRetry = 1
    /\ run[1].end = "fatal" /\ run[1].nAfter = 1

\* the last call on the Loop was remove_exception_type(exc) and returned True
JustRemoved(exc) ==
    /\ "removed" \in DOMAIN ret
    /\ ret.removed = exc /\ ret.value = Bool(TRUE)
\* an entry of the tuple is a proper base class of the class exc
BaseInTuple(exc) ==
    \E i \in 1 .. Len(_valid_exception) :
        _valid_exception[i] \in Mro(exc) \ {exc}
\* what remove_exception_type(exc) returns and leaves in the tuple
RemoveStep(exc) ==
    RemoveExceptionType(exc)
        => /\ Count(exc, _valid_exception) = 0
                => ret'.value = Bool(FALSE) /\ _valid_exception' = _valid_exception
           /\ Count(exc, _valid_exception) > 0
                => /\ ret'.value = Bool(TRUE)
                   /\ Count(exc, _valid_exception') = 0
                   /\ \A k \in AddArgs \cup RemoveArgs \cup Mro("ConnectionResetError") :
                        k # exc => Count(k, _valid_exception') = Count(k, _valid_exception)
                   /\ Len(_valid_exception') =
                        Len(_valid_exception) - Count(exc, _valid_exception)

\* C15 as stated: remove_exception_type(exc) returns False and leaves the tuple
\* alone when exc is not an entry; otherwise it returns True, no entry is exc
\* any more, the other entries are kept, and the next exception of the class
\* exc that the work raises ends the loop.
C15_RemovedIsFatal ==
    [][/\ \A exc \in RemoveArgs : RemoveStep(exc)
       /\ \A r \in RunIds :
            (WorkRaises(r) /\ JustRemoved(run'[r].raised))
                => run'[r].end = "fatal"]_vars

\* C15 amended: as stated, except that the next exception of the class exc
\* ends the loop exactly when reconnect is off or no remaining entry is a base
\* class of exc; with reconnect on and such an entry it is still retried.
C15_RemovedUnlessBase ==
    [][/\ \A exc \in RemoveArgs : RemoveStep(exc)
       /\ \A r \in RunIds :
            (WorkRaises(r) /\ JustRemoved(run'[r].raised))
                => IF reconnect /\ BaseInTuple(run'[r].raised)
                   THEN run'[r].pc = "backoff" /\ run'[r].end # "fatal"
                   ELSE run'[r].end = "fatal" /\ run'[r].fatal = run'[r].raised]_vars

C15_Witness ==
    /\ JustRemoved("ConnectionResetError") /\ reconnect
    /\ Count("OSError", _valid_exception) = 1
    /\ Count("CancelledError", _valid_exception) = 1
    /\ run[1].pc = "backoff" /\ run[1].raised = "ConnectionResetError"
    /\ run[1].nRetry = 1 /\ run[1].nWork = 1

\* C17: whether an exception of the work is retried is decided by the tuple as
\* it is when the exception is raised, and a call that changes the tuple
\* changes nothing of a task.
C17_ReadAtEachFailure ==
    [][/\ \A r \in RunIds :
            (WorkRaises(r) /\ run'[r].raised # "CancelledError")
                => IF reconnect /\ Matches(run'[r].raised, _valid_exception)
                   THEN /\ run'[r].pc = "backoff"
                        /\ run'[r].nRetry = run[r].nRetry + 1
                        /\ run'[r].end = run[r].end
                   ELSE /\ run'[r].end = "fatal"
                        /\ run'[r].nRetry = run[r].nRetry
                        /\ run'[r].pc \in {"after", "done"}
       /\ _valid_exception' # _valid_exception
            => UNCHANGED << run, _current_loop, _task, count, reconnect >>]_vars

C17_Witness ==
    /\ reconnect /\ _valid_exception = << >>
    /\ run[1].nRetry = 1 /\ run[1].nWork = 2
    /\ run[1].end = "fatal" /\ run[1].fatal = "ConnectionResetError"
    /\ run[1].pc = "after"

\* what a task that cancel() reached inside the work does from then on
CancelInWork(r) ==
    /\ (run[r].pc = "work" /\ run[r].must_cancel /\ run'[r] # run[r])
            => /\ run'[r].pc = IF HookSet(_after_loop) THEN "after" ELSE "done"
               /\ run'[r].nAfter = run[r].nAfter + Once(_after_loop)
               /\ run'[r].exc = NoExc
               /\ run'[r].end = "cancelled"
    /\ run[r].cancelAt = "work"
            => /\ run'[r].nWork = run[r].nWork
               /\ run'[r].nOk = run[r].nOk
               /\ run'[r].nRetry = run[r].nRetry
               /\ run'[r].nBackoff = run[r].nBackoff
               /\ run'[r].pc \in {"work", "after", "done"}
               /\ _current_loop' = _current_loop

\* C18 as stated: a task that cancel() reached inside the work leaves the loop
\* at once (no increment, no sleep, no further invocation of the work), invokes
\* the after-hook, and ends with no exception other than the cancellation,
\* whatever the tuple of retried exceptions holds.
C18_CancelInWork ==
    /\ [][\A r \in RunIds : CancelInWork(r)]_vars
    /\ [](\A r \in RunIds :
            (Done(r) /\ run[r].cancelAt = "work")
                => /\ run[r].nAfter = Once(_after_loop)
                   /\ run[r].result \in {"ok", "cancelled"})

\* C18 amended: as stated, except that the task ends with no exception when
\* the after-hook returned (or none is set), and with the exception of the
\* after-hook when the after-hook raised.
C18_CancelInWorkAfterHook ==
    /\ [][\A r \in RunIds : CancelInWork(r)]_vars
    /\ [](\A r \in RunIds :
            (Done(r) /\ run[r].cancelAt = "work")
                => /\ run[r].nAfter = Once(_after_loop)
                   /\ run[r].end = "cancelled"
                   /\ IF run[r].afterExc = NoExc
                      THEN run[r].result = "ok"
                      ELSE run[r].result = run[r].afterExc /\ run[r].context = NoExc)

C18_Witness ==
    /\ Matches("CancelledError", _valid_exception) /\ reconnect
    /\ Done(1) /\ run[1].cancelAt = "work" /\ run[1].result = "ok"
    /\ run[1].nAfter = 1 /\ run[1].nWork = 1 /\ run[1].nBackoff = 0
    /\ _current_loop = 0

\* the arguments satisfy what C16 requires of them
ValidArgs(a) ==
    LET total == Sleep(a.seconds, a.minutes, a.hours)
    IN  /\ a.count = None \/ a.count[1] >= 1
        /\ FGe(total, Num(0)) /\ FLt(total, Num(MAX_ASYNCIO_SECONDS))
        /\ a.coro = "coroutine function"

\* C16: Loop(...) returns exactly when count is None or >= 1, the total of
\* seconds is >= 0 and < MAX_ASYNCIO_SECONDS and coro is a coroutine function;
\* otherwise it raises ValueError or TypeError, and without a Loop no task is
\* ever created.
C16_ConstructionValidated ==
    /\ "call" \in DOMAIN ret
            => /\ ret.raised = NoExc <=> ValidArgs(ret.call)
               /\ ret.raised = NoExc => coro = <<ret.call.coro>> /\ count = ret.call.count
               /\ ret.raised # NoExc => ret.raised \in {"ValueError", "TypeError"} /\ coro = None
    /\ coro = None => Created = {}

\* C20: every invocation of the before-hook, the work and the after-hook by a
\* task that start() created on a bound Loop receives the instance that was
\* bound then.
C20_SameInstance ==
    \A r \in RunIds :
        run[r].args # None =>
        /\ run[r].beforeGot \subseteq {run[r].args}
        /\ run[r].workGot \subseteq {run[r].args}
        /\ run[r].afterGot \subseteq {run[r].args}

====
